---- MODULE Spec2Model ----
(***************************************************************************)
(* A model of circom-groth16-helpers:                                      *)
(*   - circom-types/src/groth16/zkey_to_ark.rs: the conversion of a ZKey   *)
(*     export into (ConstraintMatrices, ProvingKey) / ArkZkey, and the     *)
(*     hand-written ark-serialize codec of ConstraintMatricesWrapper;      *)
(*   - groth16-sol/src/bin/gnark-sol-extractor.rs: main.                   *)
(*                                                                         *)
(* The conversion and the codec are generic over the pairing P.  The model *)
(* instantiates P with a small curve: G1 is y^2 = x^3 + 3 over F_7, G2 is  *)
(* y^2 = x^3 + (3 + u) over F_7[u]/(u^2 + 1), the scalar field is F_5.     *)
(* Every field element then serializes to one byte, with room for the two  *)
(* flag bits of a compressed point.                                        *)
(*                                                                         *)
(* A usize is 64 bits wide.  The model writes the usize v as the integer   *)
(* congruent to v modulo 2^64 that lies nearest to zero, so usize::MAX is  *)
(* written -1: the value a wrapping subtraction 0 - 1 produces.            *)
(***************************************************************************)
EXTENDS Integers, Sequences, FiniteSets, TLC

VARIABLES overflow_checks, zkey, parts, pair, ark, inner, bytes, size, decoded,
          valid, cli

vars == <<overflow_checks, zkey, parts, pair, ark, inner, bytes, size, decoded,
          valid, cli>>

(* ------------------------------ bounds --------------------------------- *)

\* The largest n_public of an export.
MaxPublic == 2
\* The largest length of a query vector of an export.
MaxQuery == 3
\* The largest stored counter of a directly constructed ConstraintMatrices.
MaxCount == 2
\* The most pieces of a text a failing write takes before it fails.
MaxTaken == 2

(* ------------------------- the instantiation of P ---------------------- *)

\* The modulus of the base field of G1 (and of the quadratic extension of G2).
BaseModulus == 7
\* The modulus of the scalar field, the field of the matrix coefficients.
ScalarModulus == 5
\* The constant coefficient of the curve equation of G1.
CoeffB == 3
\* The constant coefficient of the curve equation of G2, an element of Fq2.
CoeffB2 == [c0 |-> 3, c1 |-> 1]

\* SWFlags: bit 7 says y is the larger of (y, -y), bit 6 says infinity.
FlagNegative == 128
FlagInfinity == 64

None == [tag |-> "None"]
Ok(v) == [tag |-> "Ok", val |-> v]
Err(e) == [tag |-> "Err", err |-> e]
Panic(m) == [tag |-> "Panic", msg |-> m]

(* ------------------------------ sequences ------------------------------ *)

RECURSIVE Flatten(_)
Flatten(ss) == IF ss = <<>> THEN <<>> ELSE Head(ss) \o Flatten(Tail(ss))

RECURSIVE SumSeq(_)
SumSeq(s) == IF s = <<>> THEN 0 ELSE Head(s) + SumSeq(Tail(s))

Drop(bs, n) == SubSeq(bs, n + 1, Len(bs))

\* What a read leaves: the value and the rest of the stream, or the error.
Read(v, rest) == [ok |-> TRUE, val |-> v, rest |-> rest, err |-> ""]
ReadErr(e) == [ok |-> FALSE, val |-> <<>>, rest |-> <<>>, err |-> e]

\* The ? operator: an error ends the function with that error, a value goes
\* on to the rest of the function.
Try(r, Rest(_)) == IF r.ok THEN Rest(r) ELSE r

(* --------------------------- ark-serialize: u64 ------------------------ *)

\* The i-th (from 0) little-endian byte of the 64-bit value n.
RECURSIVE LeByte(_, _)
LeByte(n, i) == IF i = 0 THEN n % 256 ELSE LeByte(n \div 256, i - 1)

\* u64 and usize both serialize as eight little-endian bytes, in either mode.
SerializeU64(n) == [i \in 1..8 |-> LeByte(n, i - 1)]

\* The value of eight little-endian bytes, when the model can write it: the
\* top five bytes are all 0 (a small value) or all 255 (a small wrapped one).
RECURSIVE LeValue(_, _)
LeValue(bs, top) ==
    IF bs = <<>> THEN top ELSE LeValue(SubSeq(bs, 1, Len(bs) - 1), top * 256 + bs[Len(bs)])

DeserializeU64(bs) ==
    IF Len(bs) < 8 THEN ReadErr("IoError")
    ELSE LET hi == {bs[i] : i \in 4..8}
         IN IF hi = {0} THEN Read(LeValue(SubSeq(bs, 1, 3), 0), Drop(bs, 8))
            ELSE IF hi = {255} THEN Read(LeValue(SubSeq(bs, 1, 3), -1), Drop(bs, 8))
            ELSE Read([huge |-> SubSeq(bs, 1, 8)], Drop(bs, 8))

IsHuge(v) == v \notin Int

(* --------------------------- ark-serialize: Vec ------------------------ *)

\* Vec<T>: the length as a u64, then the elements in index order.
SerializeVec(Elem(_), v) ==
    SerializeU64(Len(v)) \o Flatten([i \in 1..Len(v) |-> Elem(v[i])])

\* Reads n elements, each where the one before stopped.
ReadElements(Elem(_), n, bs) ==
    LET f[k \in 0..n] ==
            IF k = 0 THEN Read(<<>>, bs)
            ELSE Try(f[k - 1], LAMBDA p :
                 Try(Elem(p.rest), LAMBDA e :
                 Read(Append(p.val, e.val), e.rest)))
    IN f[n]

\* Reads the length, then that many elements; a stream that ends early is an
\* IoError, also when the length read is larger than any stream.
DeserializeVec(Elem(_), bs) ==
    Try(DeserializeU64(bs), LAMBDA n :
        IF IsHuge(n.val) \/ n.val < 0 \/ n.val > Len(n.rest) THEN ReadErr("IoError")
        ELSE ReadElements(Elem, n.val, n.rest))

(* ------------------------ ark-ff: field elements ----------------------- *)

\* A prime-field element serializes as the little-endian bytes of its value;
\* one byte here.  The mode does not change it.
SerializeField(f) == <<f>>

\* A byte that is not below the modulus is InvalidData.
DeserializeField(modulus, bs) ==
    IF Len(bs) < 1 THEN ReadErr("IoError")
    ELSE IF bs[1] >= modulus THEN ReadErr("InvalidData")
    ELSE Read(bs[1], Drop(bs, 1))

\* serialize_with_flags: the flag bits go into the top bits of the last byte.
SerializeFieldWithFlags(f, flags) == <<f + flags>>

\* deserialize_with_flags: the flags are the top two bits; bits 7 and 6 both
\* set is no SWFlags value.
DeserializeFieldWithFlags(modulus, bs) ==
    IF Len(bs) < 1 THEN ReadErr("IoError")
    ELSE LET flags == (bs[1] \div 64) * 64
             value == bs[1] % 64
         IN IF flags = FlagNegative + FlagInfinity THEN ReadErr("UnexpectedFlags")
            ELSE IF value >= modulus THEN ReadErr("InvalidData")
            ELSE Read([value |-> value, flags |-> flags], Drop(bs, 1))

Fq == 0..(BaseModulus - 1)
FqNeg(a) == (BaseModulus - a) % BaseModulus
FqMul(a, b) == (a * b) % BaseModulus
FqAdd(a, b) == (a + b) % BaseModulus

\* Fq2 = Fq[u] / (u^2 + 1).
Fq2 == [c0 : Fq, c1 : Fq]
Fq2Zero == [c0 |-> 0, c1 |-> 0]
Fq2Neg(a) == [c0 |-> FqNeg(a.c0), c1 |-> FqNeg(a.c1)]
Fq2Add(a, b) == [c0 |-> FqAdd(a.c0, b.c0), c1 |-> FqAdd(a.c1, b.c1)]
Fq2Mul(a, b) ==
    [c0 |-> (a.c0 * b.c0 + BaseModulus * BaseModulus - a.c1 * b.c1) % BaseModulus,
     c1 |-> (a.c0 * b.c1 + a.c1 * b.c0) % BaseModulus]
\* The order of a quadratic extension compares c1 first, then c0.
Fq2Leq(a, b) == a.c1 < b.c1 \/ (a.c1 = b.c1 /\ a.c0 <= b.c0)

\* A quadratic-extension element is c0, then c1 carrying the flags.
SerializeFq2(f) == SerializeField(f.c0) \o SerializeField(f.c1)
SerializeFq2WithFlags(f, flags) ==
    SerializeField(f.c0) \o SerializeFieldWithFlags(f.c1, flags)

DeserializeFq2(bs) ==
    Try(DeserializeField(BaseModulus, bs), LAMBDA a :
    Try(DeserializeField(BaseModulus, a.rest), LAMBDA b :
    Read([c0 |-> a.val, c1 |-> b.val], b.rest)))

DeserializeFq2WithFlags(bs) ==
    Try(DeserializeField(BaseModulus, bs), LAMBDA a :
    Try(DeserializeFieldWithFlags(BaseModulus, a.rest), LAMBDA b :
    Read([value |-> [c0 |-> a.val, c1 |-> b.val.value], flags |-> b.val.flags],
         b.rest)))

(* ------------------- ark-ec: short Weierstrass points ------------------ *)

G1Identity == [x |-> 0, y |-> 0, infinity |-> TRUE]
G1Point(x, y) == [x |-> x, y |-> y, infinity |-> FALSE]
G2Identity == [x |-> Fq2Zero, y |-> Fq2Zero, infinity |-> TRUE]
G2Point(x0, x1, y0, y1) ==
    [x |-> [c0 |-> x0, c1 |-> x1], y |-> [c0 |-> y0, c1 |-> y1], infinity |-> FALSE]

G1Rhs(x) == FqAdd(FqMul(FqMul(x, x), x), CoeffB)
G2Rhs(x) == Fq2Add(Fq2Mul(Fq2Mul(x, x), x), CoeffB2)

\* Valid::check of a point: on the curve (both groups have prime order, so
\* the subgroup check adds nothing).
G1Check(p) == p.infinity \/ FqMul(p.y, p.y) = G1Rhs(p.x)
G2Check(p) == p.infinity \/ Fq2Mul(p.y, p.y) = G2Rhs(p.x)

\* to_flags: infinity, or which of (y, -y) the point holds.
G1Flags(p) ==
    IF p.infinity THEN FlagInfinity
    ELSE IF p.y <= FqNeg(p.y) THEN 0 ELSE FlagNegative
G2Flags(p) ==
    IF p.infinity THEN FlagInfinity
    ELSE IF Fq2Leq(p.y, Fq2Neg(p.y)) THEN 0 ELSE FlagNegative

\* Compressed: x with the flags.  Uncompressed: x, then y with the flags.
\* The identity is written with x = y = 0.
SerializeG1(p, compress) ==
    LET x == IF p.infinity THEN 0 ELSE p.x
        y == IF p.infinity THEN 0 ELSE p.y
    IN IF compress THEN SerializeFieldWithFlags(x, G1Flags(p))
       ELSE SerializeField(x) \o SerializeFieldWithFlags(y, G1Flags(p))
SerializeG2(p, compress) ==
    LET x == IF p.infinity THEN Fq2Zero ELSE p.x
        y == IF p.infinity THEN Fq2Zero ELSE p.y
    IN IF compress THEN SerializeFq2WithFlags(x, G2Flags(p))
       ELSE SerializeFq2(x) \o SerializeFq2WithFlags(y, G2Flags(p))

\* get_point_from_x_unchecked: the square roots of the curve equation's right
\* side, the larger one when `greatest`; no root, no point.
G1FromX(x, greatest) ==
    LET roots == {y \in Fq : FqMul(y, y) = G1Rhs(x)}
    IN IF roots = {} THEN None
       ELSE Ok(G1Point(x, CHOOSE y \in roots :
                            \A z \in roots : IF greatest THEN z <= y ELSE y <= z))
G2FromX(x, greatest) ==
    LET roots == {y \in Fq2 : Fq2Mul(y, y) = G2Rhs(x)}
    IN IF roots = {} THEN None
       ELSE Ok([x |-> x, infinity |-> FALSE,
                y |-> CHOOSE y \in roots :
                        \A z \in roots : IF greatest THEN Fq2Leq(z, y) ELSE Fq2Leq(y, z)])

\* A point read is checked when the caller validates.
Validated(got, validate, IsValid(_)) ==
    IF got.ok /\ validate /\ ~IsValid(got.val) THEN ReadErr("InvalidData") ELSE got

\* The point of a compressed read: the identity under the infinity flag, else
\* the point of the curve with that x and the sign the flag gives.
PointFromX(p, rest) == IF p = None THEN ReadErr("InvalidData") ELSE Read(p.val, rest)

\* deserialize_with_mode of a point: rebuild it from the bytes, then check it
\* when the caller validates.
DeserializeG1(bs, compress, validate) ==
    Validated(
        IF compress
        THEN Try(DeserializeFieldWithFlags(BaseModulus, bs), LAMBDA x :
                 IF x.val.flags = FlagInfinity THEN Read(G1Identity, x.rest)
                 ELSE PointFromX(G1FromX(x.val.value, x.val.flags = FlagNegative),
                                 x.rest))
        ELSE Try(DeserializeField(BaseModulus, bs), LAMBDA x :
             Try(DeserializeFieldWithFlags(BaseModulus, x.rest), LAMBDA y :
                 IF y.val.flags = FlagInfinity THEN Read(G1Identity, y.rest)
                 ELSE Read(G1Point(x.val, y.val.value), y.rest))),
        validate, G1Check)

DeserializeG2(bs, compress, validate) ==
    Validated(
        IF compress
        THEN Try(DeserializeFq2WithFlags(bs), LAMBDA x :
                 IF x.val.flags = FlagInfinity THEN Read(G2Identity, x.rest)
                 ELSE PointFromX(G2FromX(x.val.value, x.val.flags = FlagNegative),
                                 x.rest))
        ELSE Try(DeserializeFq2(bs), LAMBDA x :
             Try(DeserializeFq2WithFlags(x.rest), LAMBDA y :
                 IF y.val.flags = FlagInfinity THEN Read(G2Identity, y.rest)
                 ELSE Read([x |-> x.val, y |-> y.val.value, infinity |-> FALSE],
                           y.rest))),
        validate, G2Check)

(* ------------------ ark-relations: the sparse matrices ----------------- *)

\* A matrix is a Vec of rows, a row a Vec of (coefficient, column) tuples; a
\* tuple serializes its members in order.
SerializeEntry(e) == SerializeField(e[1]) \o SerializeU64(e[2])
SerializeRow(r) == SerializeVec(SerializeEntry, r)
SerializeMatrix(m) == SerializeVec(SerializeRow, m)

DeserializeEntry(bs) ==
    Try(DeserializeField(ScalarModulus, bs), LAMBDA f :
    Try(DeserializeU64(f.rest), LAMBDA col :
    Read(<<f.val, col.val>>, col.rest)))
DeserializeRow(bs) == DeserializeVec(DeserializeEntry, bs)
DeserializeMatrix(bs) == DeserializeVec(DeserializeRow, bs)

\* serialized_size of the primitives: eight bytes for a u64 or usize, one for
\* a field element, the length prefix and the elements for a Vec.
U64Size == 8
UsizeSize(n) == U64Size
FieldSize == 1
EntrySize(e) == FieldSize + U64Size
RowSize(r) == U64Size + SumSeq([i \in 1..Len(r) |-> EntrySize(r[i])])
MatrixSize(m) == U64Size + SumSeq([i \in 1..Len(m) |-> RowSize(m[i])])
G1Size(compress) == IF compress THEN FieldSize ELSE 2 * FieldSize
G2Size(compress) == IF compress THEN 2 * FieldSize ELSE 4 * FieldSize

\* Valid::check of a field element, a usize, a tuple and a Vec of them: a
\* value of these types is valid by construction.
CheckMatrix(m) == \A i \in 1..Len(m) : \A j \in 1..Len(m[i]) : m[i][j][1] \in 0..(ScalarModulus - 1)
CheckUsize(n) == TRUE

(* ------------------ zkey_to_ark.rs: ConstraintMatricesWrapper ---------- *)

\* impl From<ConstraintMatrices<F>> for ConstraintMatricesWrapper<F>
WrapperFrom(value) == [inner |-> value]

\* impl From<ConstraintMatricesWrapper<F>> for ConstraintMatrices<F>
MatricesFrom(value) == value.inner

\* ConstraintMatricesWrapper::into_inner
WrapperIntoInner(self) == MatricesFrom(self)

\* WrapperSerializeWithMode writing b before a.
WrapperSerializeBFirst(self, compress) ==
    SerializeMatrix(self.inner.b)
    \o SerializeMatrix(self.inner.a)
    \o SerializeMatrix(self.inner.c)
    \o SerializeU64(self.inner.a_num_non_zero)
    \o SerializeU64(self.inner.b_num_non_zero)
    \o SerializeU64(self.inner.c_num_non_zero)
    \o SerializeU64(self.inner.num_instance_variables)
    \o SerializeU64(self.inner.num_witness_variables)
    \o SerializeU64(self.inner.num_constraints)

\* impl CanonicalSerialize for ConstraintMatricesWrapper: serialize_with_mode
WrapperSerializeWithMode(self, compress) ==
    SerializeMatrix(self.inner.a)
    \o SerializeMatrix(self.inner.b)
    \o SerializeMatrix(self.inner.c)
    \o SerializeU64(self.inner.a_num_non_zero)
    \o SerializeU64(self.inner.b_num_non_zero)
    \o SerializeU64(self.inner.c_num_non_zero)
    \o SerializeU64(self.inner.num_instance_variables)
    \o SerializeU64(self.inner.num_witness_variables)
    \o SerializeU64(self.inner.num_constraints)

\* impl CanonicalSerialize for ConstraintMatricesWrapper: serialized_size
WrapperSerializedSize(self, compress) ==
    MatrixSize(self.inner.a)
    + MatrixSize(self.inner.b)
    + MatrixSize(self.inner.c)
    + UsizeSize(self.inner.a_num_non_zero)
    + UsizeSize(self.inner.b_num_non_zero)
    + UsizeSize(self.inner.c_num_non_zero)
    + UsizeSize(self.inner.num_instance_variables)
    + UsizeSize(self.inner.num_witness_variables)
    + UsizeSize(self.inner.num_constraints)

\* WrapperCheck holding the counters against the matrices.
WrapperCheckCrossValidates(self) ==
    IF /\ CheckMatrix(self.inner.a)
       /\ CheckMatrix(self.inner.b)
       /\ CheckMatrix(self.inner.c)
       /\ self.inner.a_num_non_zero = Len(self.inner.a)
       /\ self.inner.b_num_non_zero = Len(self.inner.b)
       /\ self.inner.c_num_non_zero = Len(self.inner.c)
    THEN Ok(<<>>) ELSE Err("InvalidData")

\* impl Valid for ConstraintMatricesWrapper: check
WrapperCheck(self) ==
    IF /\ CheckMatrix(self.inner.a)
       /\ CheckMatrix(self.inner.b)
       /\ CheckMatrix(self.inner.c)
       /\ CheckUsize(self.inner.a_num_non_zero)
       /\ CheckUsize(self.inner.b_num_non_zero)
       /\ CheckUsize(self.inner.c_num_non_zero)
       /\ CheckUsize(self.inner.num_instance_variables)
       /\ CheckUsize(self.inner.num_witness_variables)
       /\ CheckUsize(self.inner.num_constraints)
    THEN Ok(<<>>) ELSE Err("InvalidData")

\* One read of a field, by the field's type.
ReadField(kind, bs, compress, validate) ==
    CASE kind = "matrix" -> DeserializeMatrix(bs)
      [] kind = "usize" -> DeserializeU64(bs)
      [] kind = "g1" -> DeserializeG1(bs, compress, validate)
      [] kind = "g2" -> DeserializeG2(bs, compress, validate)
      [] kind = "vec_g1" ->
            DeserializeVec(LAMBDA b : DeserializeG1(b, compress, FALSE), bs)
      [] kind = "vec_g2" ->
            DeserializeVec(LAMBDA b : DeserializeG2(b, compress, FALSE), bs)

\* A run of reads from one reader: each read starts where the one before
\* stopped, and the first error ends the run (the ? after every read).
ReadAll(readers, bs, compress, validate) ==
    LET f[k \in 0..Len(readers)] ==
            IF k = 0 THEN Read(<<>>, bs)
            ELSE Try(f[k - 1], LAMBDA p :
                 Try(ReadField(readers[k], p.rest, compress, validate), LAMBDA e :
                 Read(Append(p.val, e.val), e.rest)))
    IN f[Len(readers)]

\* WrapperDeserializeWithMode giving the fourth and fifth items read to each
\* other's field.
WrapperDeserializeCountersSwapped(bs, compress, validate) ==
    Try(ReadAll(<<"matrix", "matrix", "matrix",
                  "usize", "usize", "usize", "usize", "usize", "usize">>,
                bs, compress, validate),
        LAMBDA r :
        Read([inner |-> [a |-> r.val[1],
                         b |-> r.val[2],
                         c |-> r.val[3],
                         a_num_non_zero |-> r.val[5],
                         b_num_non_zero |-> r.val[4],
                         c_num_non_zero |-> r.val[6],
                         num_instance_variables |-> r.val[7],
                         num_witness_variables |-> r.val[8],
                         num_constraints |-> r.val[9]]], r.rest))

\* impl CanonicalDeserialize for ConstraintMatricesWrapper: deserialize_with_mode
WrapperDeserializeWithMode(bs, compress, validate) ==
    Try(ReadAll(<<"matrix", "matrix", "matrix",
                  "usize", "usize", "usize", "usize", "usize", "usize">>,
                bs, compress, validate),
        LAMBDA r :
        Read([inner |-> [a |-> r.val[1],
                         b |-> r.val[2],
                         c |-> r.val[3],
                         a_num_non_zero |-> r.val[4],
                         b_num_non_zero |-> r.val[5],
                         c_num_non_zero |-> r.val[6],
                         num_instance_variables |-> r.val[7],
                         num_witness_variables |-> r.val[8],
                         num_constraints |-> r.val[9]]], r.rest))

(* ------------- ark-groth16: ProvingKey and VerifyingKey ---------------- *)

\* The derived codec of VerifyingKey and ProvingKey: the fields in the order
\* the structs declare them.
SerializeVk(vk, compress) ==
    SerializeG1(vk.alpha_g1, compress)
    \o SerializeG2(vk.beta_g2, compress)
    \o SerializeG2(vk.gamma_g2, compress)
    \o SerializeG2(vk.delta_g2, compress)
    \o SerializeVec(LAMBDA p : SerializeG1(p, compress), vk.gamma_abc_g1)

SerializePk(pk, compress) ==
    SerializeVk(pk.vk, compress)
    \o SerializeG1(pk.beta_g1, compress)
    \o SerializeG1(pk.delta_g1, compress)
    \o SerializeVec(LAMBDA p : SerializeG1(p, compress), pk.a_query)
    \o SerializeVec(LAMBDA p : SerializeG1(p, compress), pk.b_g1_query)
    \o SerializeVec(LAMBDA p : SerializeG2(p, compress), pk.b_g2_query)
    \o SerializeVec(LAMBDA p : SerializeG1(p, compress), pk.h_query)
    \o SerializeVec(LAMBDA p : SerializeG1(p, compress), pk.l_query)

PkSerializedSize(pk, compress) ==
    G1Size(compress) + 3 * G2Size(compress)
    + U64Size + Len(pk.vk.gamma_abc_g1) * G1Size(compress)
    + 2 * G1Size(compress)
    + U64Size + Len(pk.a_query) * G1Size(compress)
    + U64Size + Len(pk.b_g1_query) * G1Size(compress)
    + U64Size + Len(pk.b_g2_query) * G2Size(compress)
    + U64Size + Len(pk.h_query) * G1Size(compress)
    + U64Size + Len(pk.l_query) * G1Size(compress)

CheckG1Vec(v) == \A i \in 1..Len(v) : G1Check(v[i])
CheckG2Vec(v) == \A i \in 1..Len(v) : G2Check(v[i])

PkCheck(pk) ==
    /\ G1Check(pk.vk.alpha_g1) /\ G2Check(pk.vk.beta_g2)
    /\ G2Check(pk.vk.gamma_g2) /\ G2Check(pk.vk.delta_g2)
    /\ CheckG1Vec(pk.vk.gamma_abc_g1)
    /\ G1Check(pk.beta_g1) /\ G1Check(pk.delta_g1)
    /\ CheckG1Vec(pk.a_query) /\ CheckG1Vec(pk.b_g1_query)
    /\ CheckG2Vec(pk.b_g2_query)
    /\ CheckG1Vec(pk.h_query) /\ CheckG1Vec(pk.l_query)

\* A derived deserialize reads every field without validation; the caller
\* that validates checks the whole value afterwards.
DeserializePk(bs, compress) ==
    Try(ReadAll(<<"g1", "g2", "g2", "g2", "vec_g1", "g1", "g1",
                  "vec_g1", "vec_g1", "vec_g2", "vec_g1", "vec_g1">>,
                bs, compress, FALSE),
        LAMBDA r :
        Read([vk |-> [alpha_g1 |-> r.val[1],
                      beta_g2 |-> r.val[2],
                      gamma_g2 |-> r.val[3],
                      delta_g2 |-> r.val[4],
                      gamma_abc_g1 |-> r.val[5]],
              beta_g1 |-> r.val[6],
              delta_g1 |-> r.val[7],
              a_query |-> r.val[8],
              b_g1_query |-> r.val[9],
              b_g2_query |-> r.val[10],
              h_query |-> r.val[11],
              l_query |-> r.val[12]], r.rest))

(* ------------------------- zkey_to_ark.rs: ArkZkey --------------------- *)

\* #[derive(CanonicalSerialize)] struct ArkZkey { matrices, pk }
ArkZkeySerializeWithMode(self, compress) ==
    WrapperSerializeWithMode(self.matrices, compress) \o SerializePk(self.pk, compress)

ArkZkeySerializedSize(self, compress) ==
    WrapperSerializedSize(self.matrices, compress) + PkSerializedSize(self.pk, compress)

ArkZkeyCheck(self) ==
    IF WrapperCheck(self.matrices).tag # "Ok" THEN WrapperCheck(self.matrices)
    ELSE IF PkCheck(self.pk) THEN Ok(<<>>) ELSE Err("InvalidData")

\* #[derive(CanonicalDeserialize)] struct ArkZkey { matrices, pk }
ArkZkeyDeserializeWithMode(bs, compress, validate) ==
    Try(WrapperDeserializeWithMode(bs, compress, FALSE), LAMBDA m :
    Try(DeserializePk(m.rest, compress), LAMBDA k :
    Validated(Read([matrices |-> m.val, pk |-> k.val], k.rest), validate,
              LAMBDA result : ArkZkeyCheck(result).tag = "Ok")))

\* impl From<ArkZkey<P>> for (ConstraintMatrices, ProvingKey)
PairFromArkZkey(value) == <<MatricesFrom(value.matrices), value.pk>>

\* ArkZkey::into_inner
ArkZkeyIntoInner(self) == PairFromArkZkey(self)

\* ArkZkey::as_inner
ArkZkeyAsInner(self) == <<self.matrices.inner, self.pk>>

(* --------------------- zkey_to_ark.rs: the conversion ------------------ *)

\* usize::MAX.  A usize is written as the integer nearest zero that it is
\* congruent to modulo 2^64, so 2^64 - 1 is written -1.
UsizeMax == 0 - 1

\* a < b between two usize values, the negative ones being the large ones.
UsizeLess(a, b) ==
    IF (a < 0) = (b < 0) THEN a < b ELSE b < 0

\* a + b on usize: a panic where the build checks overflow and the sum passes
\* usize::MAX, the value modulo 2^64 otherwise.
UsizeAdd(a, b, checks) ==
    IF checks /\ ((a < 0 /\ b < 0) \/ ((a < 0) # (b < 0) /\ a + b >= 0))
    THEN Panic("attempt to add with overflow")
    ELSE Ok(a + b)

\* a - b on usize: a panic where the build checks overflow and a < b, the
\* value modulo 2^64 otherwise.
UsizeSub(a, b, checks) ==
    IF checks /\ UsizeLess(a, b) THEN Panic("attempt to subtract with overflow")
    ELSE Ok(a - b)

\* zkey.n_public + 1, in the conversion into the pair
NumInstanceVariables(z, checks) == UsizeAdd(z.n_public, 1, checks)

\* NumWitnessVariables without the constant wire's "- 1".
NumWitnessVariablesKeepsConstantWire(z, checks) ==
    UsizeSub(Len(z.a_query), z.n_public, checks)

\* zkey.a_query.len() - zkey.n_public - 1, in the conversion into the pair
NumWitnessVariables(z, checks) ==
    LET d == UsizeSub(Len(z.a_query), z.n_public, checks)
    IN IF d.tag # "Ok" THEN d ELSE UsizeSub(d.val, 1, checks)

\* MatricesFromZKey with b_num_non_zero taken from a_matrix.
MatricesFromZKeyCountsFromA(z, checks) ==
    LET n == NumInstanceVariables(z, checks)
        w == NumWitnessVariables(z, checks)
    IN IF n.tag # "Ok" THEN n
       ELSE IF w.tag # "Ok" THEN w
       ELSE Ok([num_instance_variables |-> n.val,
                num_witness_variables |-> w.val,
                num_constraints |-> z.num_constraints,
                a_num_non_zero |-> Len(z.a_matrix),
                b_num_non_zero |-> Len(z.a_matrix),
                c_num_non_zero |-> 0,
                a |-> z.a_matrix,
                b |-> z.b_matrix,
                c |-> <<>>])

\* The ConstraintMatrices literal of the conversion into the pair, its fields
\* evaluated in the order written: the addition, then the subtraction.
MatricesFromZKey(z, checks) ==
    LET n == NumInstanceVariables(z, checks)
        w == NumWitnessVariables(z, checks)
    IN IF n.tag # "Ok" THEN n
       ELSE IF w.tag # "Ok" THEN w
       ELSE Ok([num_instance_variables |-> n.val,
                num_witness_variables |-> w.val,
                num_constraints |-> z.num_constraints,
                a_num_non_zero |-> Len(z.a_matrix),
                b_num_non_zero |-> Len(z.b_matrix),
                c_num_non_zero |-> 0,
                a |-> z.a_matrix,
                b |-> z.b_matrix,
                c |-> <<>>])

\* ProvingKeyFromZKey with h_query and l_query taking each other's place.
ProvingKeyFromZKeyQueriesSwapped(z) ==
    [vk |-> [alpha_g1 |-> z.alpha_g1,
             beta_g2 |-> z.beta_g2,
             gamma_g2 |-> z.gamma_g2,
             delta_g2 |-> z.delta_g2,
             gamma_abc_g1 |-> z.ic],
     beta_g1 |-> z.beta_g1,
     delta_g1 |-> z.delta_g1,
     a_query |-> z.a_query,
     b_g1_query |-> z.b_g1_query,
     b_g2_query |-> z.b_g2_query,
     h_query |-> z.l_query,
     l_query |-> z.h_query]

\* The ProvingKey literal of the conversion into the pair.
ProvingKeyFromZKey(z) ==
    [vk |-> [alpha_g1 |-> z.alpha_g1,
             beta_g2 |-> z.beta_g2,
             gamma_g2 |-> z.gamma_g2,
             delta_g2 |-> z.delta_g2,
             gamma_abc_g1 |-> z.ic],
     beta_g1 |-> z.beta_g1,
     delta_g1 |-> z.delta_g1,
     a_query |-> z.a_query,
     b_g1_query |-> z.b_g1_query,
     b_g2_query |-> z.b_g2_query,
     h_query |-> z.h_query,
     l_query |-> z.l_query]

\* impl From<ZKey<P>> for (ConstraintMatrices<P::ScalarField>, ProvingKey<P>)
PairFromZKey(z, checks) ==
    LET m == MatricesFromZKey(z, checks)
    IN IF m.tag # "Ok" THEN m
       ELSE Ok(<<m.val, ProvingKeyFromZKey(z)>>)

\* zkey.a_query.len() - zkey.n_public - 1, in the conversion into ArkZkey
ArkNumWitnessVariables(z, checks) ==
    LET d == UsizeSub(Len(z.a_query), z.n_public, checks)
    IN IF d.tag # "Ok" THEN d ELSE UsizeSub(d.val, 1, checks)

\* zkey.n_public + 1, in the conversion into ArkZkey
ArkNumInstanceVariables(z, checks) == UsizeAdd(z.n_public, 1, checks)

\* The ConstraintMatrices literal of the conversion into ArkZkey, its fields
\* evaluated in the order written: the addition, then the subtraction.
ArkMatricesFromZKey(z, checks) ==
    LET n == ArkNumInstanceVariables(z, checks)
        w == ArkNumWitnessVariables(z, checks)
    IN IF n.tag # "Ok" THEN n
       ELSE IF w.tag # "Ok" THEN w
       ELSE Ok([num_instance_variables |-> n.val,
                num_witness_variables |-> w.val,
                num_constraints |-> z.num_constraints,
                a_num_non_zero |-> Len(z.a_matrix),
                b_num_non_zero |-> Len(z.b_matrix),
                c_num_non_zero |-> 0,
                a |-> z.a_matrix,
                b |-> z.b_matrix,
                c |-> <<>>])

\* ArkProvingKeyFromZKey with delta_g1 written to beta_g1 as well.
ArkProvingKeyDeltaForBeta(z) ==
    [vk |-> [alpha_g1 |-> z.alpha_g1,
             beta_g2 |-> z.beta_g2,
             gamma_g2 |-> z.gamma_g2,
             delta_g2 |-> z.delta_g2,
             gamma_abc_g1 |-> z.ic],
     beta_g1 |-> z.delta_g1,
     delta_g1 |-> z.delta_g1,
     a_query |-> z.a_query,
     b_g1_query |-> z.b_g1_query,
     b_g2_query |-> z.b_g2_query,
     h_query |-> z.h_query,
     l_query |-> z.l_query]

\* The ProvingKey literal of the conversion into ArkZkey.
ArkProvingKeyFromZKey(z) ==
    [vk |-> [alpha_g1 |-> z.alpha_g1,
             beta_g2 |-> z.beta_g2,
             gamma_g2 |-> z.gamma_g2,
             delta_g2 |-> z.delta_g2,
             gamma_abc_g1 |-> z.ic],
     beta_g1 |-> z.beta_g1,
     delta_g1 |-> z.delta_g1,
     a_query |-> z.a_query,
     b_g1_query |-> z.b_g1_query,
     b_g2_query |-> z.b_g2_query,
     h_query |-> z.h_query,
     l_query |-> z.l_query]

\* impl From<ZKey<P>> for ArkZkey<P>
ArkZkeyFromZKey(z, checks) ==
    LET m == ArkMatricesFromZKey(z, checks)
    IN IF m.tag # "Ok" THEN m
       ELSE Ok([matrices |-> WrapperFrom(m.val),
                pk |-> ArkProvingKeyFromZKey(z)])

(* ------------------------------ the inputs ----------------------------- *)

Entry(coeff, col) == <<coeff, col>>

\* Matrices of different shapes: no row, one row of two entries, three rows
\* one of them empty, two rows of one entry each.
MatrixSample ==
    << <<>>,
       << <<Entry(1, 0), Entry(2, 1)>> >>,
       << <<Entry(1, 0)>>, <<>>, <<Entry(3, 2), Entry(4, 1)>> >>,
       << <<Entry(2, 1)>>, <<Entry(4, 0)>> >> >>

\* Points of G1 and G2: both signs of one x, other points, the identity.
G1Sample ==
    <<G1Point(1, 2), G1Point(1, 5), G1Point(3, 3), G1Identity, G1Point(6, 4)>>
G2Sample ==
    <<G2Point(0, 1, 0, 2), G2Point(0, 1, 0, 5), G2Identity,
      G2Point(1, 2, 1, 3), G2Point(1, 2, 6, 4)>>

Pick(sample, i) == sample[(i % Len(sample)) + 1]
G1Vec(n, s) == [i \in 1..n |-> Pick(G1Sample, s + i)]
G2Vec(n, s) == [i \in 1..n |-> Pick(G2Sample, s + i)]
Max(a, b) == IF a > b THEN a ELSE b

\* The export with P public signals, query vectors of length L, nc
\* constraints and the k-th matrices and points.
Export(P, L, nc, k) ==
    [n_public |-> P,
     num_constraints |-> nc,
     a_matrix |-> Pick(MatrixSample, k),
     b_matrix |-> Pick(MatrixSample, k + 1),
     alpha_g1 |-> Pick(G1Sample, k),
     beta_g1 |-> Pick(G1Sample, k + 1),
     beta_g2 |-> Pick(G2Sample, k),
     gamma_g2 |-> Pick(G2Sample, k + 1),
     delta_g1 |-> Pick(G1Sample, k + 2),
     delta_g2 |-> Pick(G2Sample, k + 3),
     ic |-> G1Vec(P + 1, k),
     a_query |-> G1Vec(L, k + 1),
     b_g1_query |-> G1Vec(L, k + 2),
     b_g2_query |-> G2Vec(L, k),
     h_query |-> G1Vec(nc + 1, k + 3),
     l_query |-> G1Vec(Max(L - P - 1, 0), k + 4)]

\* The values of n_public: the small ones and the largest usize.
PublicCounts == (0..MaxPublic) \cup {UsizeMax}

\* Every n_public with every length of a_query, the matrices and the points
\* changing from one export to the next.
Exports ==
    {Export(P, L, L + 1, P + L) : P \in PublicCounts, L \in 0..MaxQuery}

\* A ConstraintMatrices value built field by field, its counters free of its
\* matrices; w says whether num_witness_variables is a wrapped value.
Matrices(k, n, w) ==
    [a |-> Pick(MatrixSample, k),
     b |-> Pick(MatrixSample, k + 1),
     c |-> Pick(MatrixSample, k + 2),
     a_num_non_zero |-> n,
     b_num_non_zero |-> n + 1,
     c_num_non_zero |-> IF w THEN 0 ELSE n + 5,
     num_instance_variables |-> n + 2,
     num_witness_variables |-> IF w THEN 0 - 1 - n ELSE n + 3,
     num_constraints |-> n + 4]

\* A ProvingKey built field by field.
ProvingKeySample(k, n) ==
    [vk |-> [alpha_g1 |-> Pick(G1Sample, k + 2),
             beta_g2 |-> Pick(G2Sample, k + 1),
             gamma_g2 |-> Pick(G2Sample, k + 2),
             delta_g2 |-> Pick(G2Sample, k),
             gamma_abc_g1 |-> G1Vec(n + 1, k + 3)],
     beta_g1 |-> Pick(G1Sample, k),
     delta_g1 |-> Pick(G1Sample, k + 4),
     a_query |-> G1Vec(n + 2, k),
     b_g1_query |-> G1Vec(n + 2, k + 1),
     b_g2_query |-> G2Vec(n + 2, k + 2),
     h_query |-> G1Vec(n, k + 2),
     l_query |-> G1Vec(1, k + 4)]

PartsSet ==
    {<<Matrices(k, n, (k + n) % 2 = 1), ProvingKeySample(k, n)>> :
        k \in 0..(Len(MatrixSample) - 1), n \in 0..MaxCount}

(* ------------------ gnark-sol-extractor.rs: main ----------------------- *)

ExitSuccess == 0
ExitFailure == 1
ExitPanic == 101
ExitUsage == 2

\* The verification keys a file may hold.
VerifyingKeySample(k) ==
    [alpha_g1 |-> Pick(G1Sample, k),
     beta_g2 |-> Pick(G2Sample, k),
     gamma_g2 |-> Pick(G2Sample, k + 1),
     delta_g2 |-> Pick(G2Sample, k + 3),
     gamma_abc_g1 |-> G1Vec(k + 1, k)]

\* What the input path leads to: no file, a file that is no verification key,
\* a file that holds one.
Files == {None, Err("not a verification key")} \cup {Ok(VerifyingKeySample(k)) : k \in 0..2}

\* The command line: --input is required, --output is optional,
\* --pragma-version has a default; flag is --help, --version, an argument the
\* parser does not know, or none of them.
Inputs == {None, Ok("vk.json")}
Outputs == {None, Ok("Verifier.sol")}
PragmaVersions == {"^0.8.0", "^0.8.20"}
Flags == {"none", "help", "version", "unknown"}
Args ==
    [input : Inputs, output : Outputs, pragma_version : PragmaVersions,
     flag : Flags]

\* The output path: it takes the whole text; it cannot be created, and what
\* it held stays; or it is created or truncated and the write fails, at once
\* or partway.
OutputPaths == {"writable", "refused", "failing"}

\* The standard output: it takes what is written; a write to it fails, at once
\* or partway; or it is closed, and the runtime takes a write to it for done.
Stdouts == {"open", "failing", "closed"}

\* The environment of a run: the file behind --input, whether the template
\* engine renders, the output path and the standard output, and how many
\* pieces of a text a failing write takes before it fails.
Environments ==
    [file : Files, render_ok : BOOLEAN, output_path : OutputPaths,
     stdout : Stdouts, taken : 0..MaxTaken]

\* What a write that fails has taken of a text: a proper prefix of it.
Prefix(text, taken) ==
    SubSeq(text, 1, IF taken < Len(text) THEN taken ELSE Len(text) - 1)

\* std::fs::write(output, text): what the output path holds afterwards, None
\* where it was not touched.
FsWrite(text, output_path, taken) ==
    IF output_path = "writable" THEN Ok(text)
    ELSE IF output_path = "refused" THEN None
    ELSE Ok(Prefix(text, taken))

\* What arrives on the standard output of a text written to it, None for
\* nothing.
StdoutWrite(text, stdout, taken) ==
    IF stdout = "open" THEN Ok(text)
    ELSE IF stdout = "closed" \/ Prefix(text, taken) = <<>> THEN None
    ELSE Ok(Prefix(text, taken))

\* The text of --help, in pieces.
HelpText == <<"about", "usage", "options">>

\* The text of --version, in pieces: the name of the package, which the
\* binary belongs to and imports as taceo_groth16_sol, then its version.
VersionText == <<"taceo-groth16-sol", "version">>

\* struct Config
Configs == [input : Inputs \ {None}, output : Outputs, pragma_version : PragmaVersions]

\* Config::parse(): the Config, or the way the parser ends the process.
Parse(args) ==
    IF args.flag = "help" THEN Err("DisplayHelp")
    ELSE IF args.flag = "version" THEN Err("DisplayVersion")
    ELSE IF args.flag = "unknown" THEN Err("UnknownArgument")
    ELSE IF args.input = None THEN Err("MissingRequiredArgument")
    ELSE Ok([input |-> args.input, output |-> args.output,
             pragma_version |-> args.pragma_version])

\* contract.render(): the template filled in with the key and the pragma, as
\* the pieces of the text.
Render(vk, pragma_version, render_ok) ==
    IF render_ok THEN Ok(<<pragma_version, vk>>)
    ELSE Err("askama::Error")

\* println!("{}", text): the text and a newline.
Println(text) == Append(text, "\n")

\* How the process ends: Ok(ExitCode::SUCCESS), an eyre report with its
\* context, a panic, or the parser's exit with its message.
Exit(code, report, panic, usage, stdout, written) ==
    [exit_code |-> code, report |-> report, panic |-> panic, usage |-> usage,
     stdout |-> stdout, written |-> written]

\* The body of main after Config::parse().
Run(config, env) ==
    IF env.file = None
    THEN Exit(ExitFailure, "while opening input file", "", "", None, None)
    ELSE IF env.file.tag = "Err"
    THEN Exit(ExitFailure, "while parsing verification-key", "", "", None, None)
    ELSE LET rendered == Render(env.file.val, config.pragma_version, env.render_ok)
         IN IF rendered.tag # "Ok"
            THEN Exit(ExitPanic, "", "called Result::unwrap() on an Err value", "",
                      None, None)
            ELSE IF config.output # None
            THEN IF env.output_path = "writable"
                 THEN Exit(ExitSuccess, "", "", "", None,
                           FsWrite(rendered.val, env.output_path, env.taken))
                 ELSE Exit(ExitFailure, "while writing output", "", "", None,
                           FsWrite(rendered.val, env.output_path, env.taken))
            ELSE IF env.stdout = "failing"
                 THEN Exit(ExitPanic, "", "failed printing to stdout", "",
                           StdoutWrite(Println(rendered.val), env.stdout, env.taken),
                           None)
                 ELSE Exit(ExitSuccess, "", "", "",
                           StdoutWrite(Println(rendered.val), env.stdout, env.taken),
                           None)

\* fn main() -> eyre::Result<ExitCode>
Main(args, env) ==
    LET config == Parse(args)
    IN IF config.tag = "Ok" THEN Run(config.val, env)
       ELSE IF config.err \in {"DisplayHelp", "DisplayVersion"}
       THEN Exit(ExitSuccess, "", "", "",
                 StdoutWrite(IF config.err = "DisplayHelp" THEN HelpText
                             ELSE VersionText, env.stdout, env.taken),
                 None)
       ELSE Exit(ExitUsage, "", "", config.err, None, None)

(* --------------------------- the state machine ------------------------- *)

\* overflow_checks is the build's: a debug build panics on an arithmetic
\* overflow, a release build wraps.  zkey is the export at hand, parts a
\* (matrices, proving key) pair supplied directly.  pair, ark and inner are
\* the results of the conversions; bytes, size, decoded and valid are the
\* results of the last encode, size query, decode and check of the container.
\* A conversion drops the results of the codec, and the codec those of the
\* conversions other than the container it works on; an encode drops what
\* was learnt of the bytes before it.
Init ==
    /\ overflow_checks \in BOOLEAN
    /\ zkey = None /\ parts = None /\ pair = None /\ ark = None /\ inner = None
    /\ bytes = None /\ size = None /\ decoded = None /\ valid = None
    /\ cli = None

\* The run's input arrives: a parsed export.
LoadZKey(z) ==
    /\ zkey = None /\ parts = None
    /\ zkey' = Ok(z)
    /\ UNCHANGED <<overflow_checks, parts, pair, ark, inner, bytes, size, decoded,
                   valid, cli>>

\* let pair: (ConstraintMatrices, ProvingKey) = zkey.into()
ConvertToPair ==
    /\ zkey # None
    /\ pair' = PairFromZKey(zkey.val, overflow_checks)
    /\ bytes' = None /\ size' = None /\ decoded' = None /\ valid' = None
    /\ UNCHANGED <<overflow_checks, zkey, parts, ark, inner, cli>>

\* let ark: ArkZkey = zkey.into()
ConvertToArkZkey ==
    /\ zkey # None
    /\ ark' = ArkZkeyFromZKey(zkey.val, overflow_checks)
    /\ inner' = None
    /\ bytes' = None /\ size' = None /\ decoded' = None /\ valid' = None
    /\ UNCHANGED <<overflow_checks, zkey, parts, pair, cli>>

\* The run's input arrives: a (matrices, proving key) pair, made into
\* ArkZkey { matrices: matrices.into(), pk }.
Construct(p) ==
    /\ zkey = None /\ parts = None
    /\ parts' = Ok(p)
    /\ ark' = Ok([matrices |-> WrapperFrom(p[1]), pk |-> p[2]])
    /\ UNCHANGED <<overflow_checks, zkey, pair, inner, bytes, size, decoded, valid,
                   cli>>

\* ark.as_inner(): the container stays.
AsInner ==
    /\ ark.tag = "Ok"
    /\ inner' = [via |-> "as_inner", val |-> ArkZkeyAsInner(ark.val)]
    /\ bytes' = None /\ size' = None /\ decoded' = None /\ valid' = None
    /\ UNCHANGED <<overflow_checks, zkey, parts, pair, ark, cli>>

\* ark.into_inner(): the container is consumed.
IntoInner ==
    /\ ark.tag = "Ok"
    /\ inner' = [via |-> "into_inner", val |-> ArkZkeyIntoInner(ark.val)]
    /\ ark' = None
    /\ bytes' = None /\ size' = None /\ decoded' = None /\ valid' = None
    /\ UNCHANGED <<overflow_checks, zkey, parts, pair, cli>>

Subjects == {"matrices", "zkey"}

\* value.serialize_with_mode(&mut buf, compress), of the container or of its
\* matrices field.
Serialize(subject, compress) ==
    /\ ark.tag = "Ok"
    /\ bytes' = [of |-> subject, compress |-> compress,
                 data |-> IF subject = "zkey"
                          THEN ArkZkeySerializeWithMode(ark.val, compress)
                          ELSE WrapperSerializeWithMode(ark.val.matrices, compress)]
    /\ size' = None /\ decoded' = None /\ valid' = None
    /\ pair' = None /\ inner' = None
    /\ UNCHANGED <<overflow_checks, zkey, parts, ark, cli>>

\* value.serialized_size(compress)
SerializedSize(subject, compress) ==
    /\ ark.tag = "Ok"
    /\ size' = [of |-> subject, compress |-> compress,
                n |-> IF subject = "zkey"
                      THEN ArkZkeySerializedSize(ark.val, compress)
                      ELSE WrapperSerializedSize(ark.val.matrices, compress)]
    /\ valid' = None
    /\ pair' = None /\ inner' = None
    /\ UNCHANGED <<overflow_checks, zkey, parts, ark, bytes, decoded, cli>>

\* T::deserialize_with_mode(&buf[..], compress, validate), T the type the
\* bytes were written from.
Deserialize(compress, validate) ==
    /\ bytes # None
    /\ decoded' = [of |-> bytes.of, compress |-> compress, validate |-> validate,
                   result |-> IF bytes.of = "zkey"
                              THEN ArkZkeyDeserializeWithMode(bytes.data, compress,
                                                              validate)
                              ELSE WrapperDeserializeWithMode(bytes.data, compress,
                                                              validate)]
    /\ UNCHANGED <<overflow_checks, zkey, parts, pair, ark, inner, bytes, size,
                   valid, cli>>

\* value.check()
Check(subject) ==
    /\ ark.tag = "Ok"
    /\ valid' = [of |-> subject,
                 result |-> IF subject = "zkey" THEN ArkZkeyCheck(ark.val)
                            ELSE WrapperCheck(ark.val.matrices)]
    /\ size' = None
    /\ pair' = None /\ inner' = None
    /\ UNCHANGED <<overflow_checks, zkey, parts, ark, bytes, decoded, cli>>

Next ==
    \/ \E z \in Exports : LoadZKey(z)
    \/ ConvertToPair
    \/ ConvertToArkZkey
    \/ \E p \in PartsSet : Construct(p)
    \/ AsInner
    \/ IntoInner
    \/ \E s \in Subjects, c \in BOOLEAN : Serialize(s, c)
    \/ \E s \in Subjects, c \in BOOLEAN : SerializedSize(s, c)
    \/ \E c \in BOOLEAN, v \in BOOLEAN : Deserialize(c, v)
    \/ \E s \in Subjects : Check(s)

Spec == Init /\ [][Next]_vars

\* One run of the command-line tool.
RunMain(args, env) ==
    /\ cli = None
    /\ cli' = [args |-> args, config |-> Parse(args), env |-> env,
               result |-> Main(args, env)]
    /\ UNCHANGED <<overflow_checks, zkey, parts, pair, ark, inner, bytes, size,
                   decoded, valid>>

CliNext == \E args \in Args, env \in Environments : RunMain(args, env)

CliSpec == Init /\ [][CliNext]_vars

\* The sampled points lie on their curves, and a stream is a stream of bytes.
TypeOK ==
    /\ \A i \in 1..Len(G1Sample) : G1Check(G1Sample[i])
    /\ \A i \in 1..Len(G2Sample) : G2Check(G2Sample[i])
    /\ bytes # None => \A i \in 1..Len(bytes.data) : bytes.data[i] \in 0..255

(* ------------------------------- claims -------------------------------- *)

\* The results of the conversions of the export at hand, each as the
\* (matrices, proving key) pair it holds or the way it failed.
ConversionResults ==
    (IF zkey # None /\ pair # None THEN {pair} ELSE {})
    \cup (IF zkey # None /\ ark # None
          THEN {IF ark.tag = "Ok" THEN Ok(<<ark.val.matrices.inner, ark.val.pk>>)
                ELSE ark}
          ELSE {})

\* The export's a_query is too short for its n_public.
ShortQuery ==
    /\ zkey # None
    /\ \/ UsizeLess(Len(zkey.val.a_query), zkey.val.n_public)
       \/ Len(zkey.val.a_query) = zkey.val.n_public

BothConverted == zkey # None /\ pair # None /\ ark # None

\* The number of (coefficient, column) pairs of a matrix.
NonZeroEntries(m) == SumSeq([i \in 1..Len(m) |-> Len(m[i])])

\* C1: converting an export whose a_query is shorter than n_public + 1 fails
\* with an InvalidInput error, into the pair and into ArkZkey alike; it neither
\* panics nor yields a wrapped num_witness_variables.
ShortQueryIsInvalidInput ==
    ShortQuery => \A r \in ConversionResults : r = Err("InvalidInput")

\* C2: for an export with n_public = P and an a_query of length L >= P + 1,
\* the converted matrices have num_instance_variables = P + 1,
\* num_witness_variables = L - P - 1 and the export's num_constraints, so the
\* two variable counts add up to L.
ConversionArithmetic ==
    (zkey # None /\ ~ShortQuery) =>
        \A r \in ConversionResults :
            /\ r.tag = "Ok"
            /\ r.val[1].num_instance_variables = zkey.val.n_public + 1
            /\ r.val[1].num_witness_variables
                    = Len(zkey.val.a_query) - zkey.val.n_public - 1
            /\ r.val[1].num_constraints = zkey.val.num_constraints
            /\ r.val[1].num_instance_variables + r.val[1].num_witness_variables
                    = Len(zkey.val.a_query)

ConversionArithmeticWitness ==
    /\ BothConverted /\ ~ShortQuery
    /\ pair.tag = "Ok" /\ ark.tag = "Ok"
    /\ zkey.val.n_public > 0
    /\ pair.val[1].num_witness_variables > 0

\* C3: in every converted artifact a_num_non_zero and b_num_non_zero are the
\* numbers of rows of the export's a_matrix and b_matrix, a and b are those
\* matrices unchanged, c is empty and c_num_non_zero is 0.
CountsAreRowCounts ==
    \A r \in ConversionResults :
        r.tag = "Ok" =>
            /\ r.val[1].a_num_non_zero = Len(zkey.val.a_matrix)
            /\ r.val[1].b_num_non_zero = Len(zkey.val.b_matrix)
            /\ r.val[1].a = zkey.val.a_matrix
            /\ r.val[1].b = zkey.val.b_matrix
            /\ r.val[1].c = <<>>
            /\ r.val[1].c_num_non_zero = 0

CountsAreRowCountsWitness ==
    /\ BothConverted
    /\ pair.tag = "Ok" /\ ark.tag = "Ok"
    /\ Len(zkey.val.a_matrix) > 0
    /\ Len(zkey.val.a_matrix) # Len(zkey.val.b_matrix)

\* C4: in the converted matrices a_num_non_zero and b_num_non_zero are the
\* numbers of non-zero entries of a and b: the (coefficient, column) pairs
\* counted over all rows.
CountsAreEntryCounts ==
    \A r \in ConversionResults :
        r.tag = "Ok" =>
            /\ r.val[1].a_num_non_zero = NonZeroEntries(r.val[1].a)
            /\ r.val[1].b_num_non_zero = NonZeroEntries(r.val[1].b)

\* The value the bytes at hand were written from.
Encoded == IF bytes.of = "zkey" THEN ark.val ELSE ark.val.matrices

\* C5: in either mode, decoding the bytes an encode wrote, with that mode,
\* gives back the value encoded, of a ConstraintMatricesWrapper and of an
\* ArkZkey; and serialized_size is the number of bytes the encode writes.
RoundTrip ==
    /\ (decoded # None /\ decoded.compress = bytes.compress) =>
            /\ decoded.result.ok
            /\ decoded.result.val = Encoded
            /\ decoded.result.rest = <<>>
    /\ (size # None /\ bytes # None /\ size.of = bytes.of
            /\ size.compress = bytes.compress) =>
            size.n = Len(bytes.data)

RoundTripWitness ==
    /\ decoded # None /\ size # None
    /\ bytes.of = "zkey" /\ size.of = "zkey"
    /\ bytes.compress /\ decoded.compress /\ size.compress
    /\ decoded.validate
    /\ decoded.result.ok
    /\ Len(ark.val.matrices.inner.a) > 1
    /\ Len(ark.val.pk.a_query) > 1
    /\ Len(ark.val.pk.b_g2_query) > 1

\* The nine fields of a matrices value in the order a, b, c, a_num_non_zero,
\* b_num_non_zero, c_num_non_zero, num_instance_variables,
\* num_witness_variables, num_constraints.
NineFields(m) ==
    <<m.a, m.b, m.c, m.a_num_non_zero, m.b_num_non_zero, m.c_num_non_zero,
      m.num_instance_variables, m.num_witness_variables, m.num_constraints>>

\* The items of a stream of three matrices and six counters, read one by one.
RECURSIVE NineItems(_, _)
NineItems(bs, k) ==
    IF k > 9 THEN <<>>
    ELSE LET r == IF k <= 3 THEN DeserializeMatrix(bs) ELSE DeserializeU64(bs)
         IN <<r.val>> \o NineItems(r.rest, k + 1)

\* C6: an encode writes a, b, c, a_num_non_zero, b_num_non_zero,
\* c_num_non_zero, num_instance_variables, num_witness_variables,
\* num_constraints in this order; a decode gives the k-th item of the stream
\* to the k-th of these fields; serialized_size adds up the same nine fields;
\* the container writes its matrices first and its proving key, in the same
\* mode, second.
FieldOrder ==
    /\ bytes # None =>
            LET m == NineFields(ark.val.matrices.inner)
            IN bytes.data
                = Flatten([k \in 1..9 |-> IF k <= 3 THEN SerializeMatrix(m[k])
                                          ELSE SerializeU64(m[k])])
                  \o (IF bytes.of = "zkey" THEN SerializePk(ark.val.pk, bytes.compress)
                      ELSE <<>>)
    /\ (decoded # None /\ decoded.result.ok) =>
            NineFields(IF decoded.of = "zkey" THEN decoded.result.val.matrices.inner
                       ELSE decoded.result.val.inner)
                = NineItems(bytes.data, 1)
    /\ size # None =>
            LET m == NineFields(ark.val.matrices.inner)
            IN size.n
                = SumSeq([k \in 1..9 |-> IF k <= 3 THEN MatrixSize(m[k]) ELSE U64Size])
                  + (IF size.of = "zkey" THEN PkSerializedSize(ark.val.pk, size.compress)
                     ELSE 0)

\* All nine fields differ from one another, so a field in another's place shows.
FieldOrderWitness ==
    /\ bytes # None /\ decoded # None /\ size # None
    /\ bytes.of = "zkey" /\ size.of = "zkey"
    /\ decoded.result.ok
    /\ LET m == NineFields(ark.val.matrices.inner)
       IN /\ Cardinality({m[k] : k \in 1..3}) = 3
          /\ Cardinality({m[k] : k \in 4..9}) = 6

\* Two vectors of one length with the same element at every index.
SameVector(v, w) == Len(v) = Len(w) /\ \A i \in 1..Len(w) : v[i] = w[i]

\* C7: the conversion carries every element of the proving key over
\* unchanged: alpha_g1, beta_g2, gamma_g2, delta_g2 to the verifying key's
\* fields of those names, ic to gamma_abc_g1, beta_g1 and delta_g1 to
\* themselves, and each query vector with its length and its element at every
\* index.
ProvingKeyCarriedOver ==
    \A r \in ConversionResults :
        r.tag = "Ok" =>
            /\ r.val[2].vk.alpha_g1 = zkey.val.alpha_g1
            /\ r.val[2].vk.beta_g2 = zkey.val.beta_g2
            /\ r.val[2].vk.gamma_g2 = zkey.val.gamma_g2
            /\ r.val[2].vk.delta_g2 = zkey.val.delta_g2
            /\ SameVector(r.val[2].vk.gamma_abc_g1, zkey.val.ic)
            /\ r.val[2].beta_g1 = zkey.val.beta_g1
            /\ r.val[2].delta_g1 = zkey.val.delta_g1
            /\ SameVector(r.val[2].a_query, zkey.val.a_query)
            /\ SameVector(r.val[2].b_g1_query, zkey.val.b_g1_query)
            /\ SameVector(r.val[2].b_g2_query, zkey.val.b_g2_query)
            /\ SameVector(r.val[2].h_query, zkey.val.h_query)
            /\ SameVector(r.val[2].l_query, zkey.val.l_query)

ProvingKeyCarriedOverWitness ==
    /\ BothConverted
    /\ pair.tag = "Ok" /\ ark.tag = "Ok"
    /\ Len(zkey.val.a_query) > 1
    /\ zkey.val.a_query[1] # zkey.val.a_query[2]
    /\ zkey.val.h_query # zkey.val.l_query
    /\ zkey.val.a_query # zkey.val.b_g1_query
    /\ zkey.val.beta_g1 # zkey.val.delta_g1

\* What main's run had to get through, and whether one of the steps the run
\* reached failed.
CliFailed ==
    \/ cli.env.file = None
    \/ cli.env.file.tag = "Err"
    \/ ~cli.env.render_ok
    \/ (cli.config.val.output # None /\ cli.env.output_path # "writable")

\* C8: a run of the tool on a command line that gives a Config exits with
\* code 0 only when open, parse, render and output all succeeded; a failure of
\* any of them comes out of main as an error with a context message and a
\* non-zero exit code, and a failure to render is never a panic.
CliReportsEveryFailure ==
    (cli # None /\ cli.config.tag = "Ok") =>
        /\ cli.result.exit_code = ExitSuccess => ~CliFailed
        /\ CliFailed =>
            /\ cli.result.exit_code # ExitSuccess
            /\ cli.result.report # ""
            /\ cli.result.panic = ""

\* C9: for every export, converting into ArkZkey and taking the inner pair
\* (into_inner or as_inner) gives the pair the direct conversion gives, and
\* both conversions fail alike; wrapping a ConstraintMatrices and unwrapping
\* it gives it back.
PathsAgree ==
    /\ BothConverted =>
            /\ pair.tag = ark.tag
            /\ ark.tag = "Ok" => pair.val = <<ark.val.matrices.inner, ark.val.pk>>
            /\ ark.tag # "Ok" => pair = ark
    /\ (zkey # None /\ pair # None /\ inner # None) => pair = Ok(inner.val)
    /\ (parts # None /\ inner # None) => inner.val = parts.val
    /\ (parts # None /\ ark # None) => WrapperIntoInner(ark.val.matrices) = parts.val[1]

PathsAgreeWitness ==
    /\ zkey # None /\ pair # None /\ inner # None
    /\ inner.via = "into_inner"
    /\ pair.tag = "Ok"
    /\ Len(zkey.val.a_query) > 1
    /\ zkey.val.beta_g1 # zkey.val.delta_g1

\* A stored counter is not the number of rows of its matrix.
Inconsistent(m) ==
    \/ m.a_num_non_zero # Len(m.a)
    \/ m.b_num_non_zero # Len(m.b)
    \/ m.c_num_non_zero # Len(m.c)

\* C10: a matrices value whose counters disagree with its matrices encodes,
\* decodes back to the same value without error, with or without validation,
\* and passes check(); check() fails only when the check of one of the nine
\* fields fails.
NoCrossValidation ==
    /\ (ark.tag = "Ok" /\ Inconsistent(ark.val.matrices.inner)) =>
            /\ (decoded # None /\ decoded.of = "matrices") =>
                    /\ decoded.result.ok
                    /\ decoded.result.val = ark.val.matrices
            /\ (valid # None /\ valid.of = "matrices") => valid.result = Ok(<<>>)
    /\ (valid # None /\ valid.of = "matrices") =>
            LET m == ark.val.matrices.inner
            IN valid.result.tag = "Ok"
                <=> /\ \A k \in 1..3 : CheckMatrix(NineFields(m)[k])
                    /\ \A k \in 4..9 : CheckUsize(NineFields(m)[k])

NoCrossValidationWitness ==
    /\ parts # None /\ ark.tag = "Ok"
    /\ decoded # None /\ valid # None
    /\ decoded.of = "matrices" /\ valid.of = "matrices"
    /\ decoded.validate
    /\ decoded.result.ok /\ valid.result.tag = "Ok"
    /\ ark.val.matrices.inner.a_num_non_zero # Len(ark.val.matrices.inner.a)
    /\ ark.val.matrices.inner.c # <<>>
    /\ ark.val.matrices.inner.c_num_non_zero = 0

====
